---- MODULE Spec2Model ----
(***************************************************************************)
(* SoloSafe browser client: the session store kept in localStorage, the    *)
(* OAuth callback exchange, the protected-page check and the authenticated *)
(* request gateway, in the two source variants of the repository:          *)
(*   "bearer"  src/unnamed/part_000  (token in storage, Bearer header)     *)
(*   "cookie"  src/script.js         (ambient session cookie)              *)
(* One behaviour is one page load.  Every await of the code is a           *)
(* suspension point: the synchronous part before it and the continuation   *)
(* after it are separate actions, and other handlers run in between.       *)
(* Spec is the page lifecycle with its gateway calls, SpecStore the         *)
(* synchronous calls on the session store, SpecFeature the feature calls    *)
(* (check-in, SOS, trip list) with the one-shot location fetch.             *)
(***************************************************************************)
EXTENDS Integers, Sequences, FiniteSets, TLC

\* ------------------------------------------------------------------ bounds
\* Number of gateway calls one page load may start.
MaxCalls == 2
\* Number of times logout() may be called during one page load.
MaxLogouts == 1
\* Number of trips in one response to the trip-list request.
MaxTrips == 2
\* calls of watchPosition in one page load
MaxWatches == 3
\* calls of handleGoogleCallback by page scripts after the load handler
MaxRecalls == 1

\* ------------------------------------------------------------ JS values
\* A JS object is a function from its own property names to values.  String
\* properties hold strings; the property "user" and the option "headers" hold
\* objects.  Undef is the value of a missing string property.
Undef == "<undefined>"
\* The token getAuthToken returns when nothing is stored (JS null).
Null == "<null>"
\* localStorage.getItem of a key that is not stored.
NoItem == "<absent>"
EmptyObj == [k \in {} |-> ""]

Truthy(s) == s \notin {"", Undef, Null, NoItem}

\* obj.k for a string property
Get(obj, k) == IF k \in DOMAIN obj THEN obj[k] ELSE Undef

\* { ...a, ...b }
Spread(a, b) ==
    [k \in (DOMAIN a) \cup (DOMAIN b) |-> IF k \in DOMAIN b THEN b[k] ELSE a[k]]

\* A value handed back to a caller: JS null or an object.
JSNull == [k |-> "null", o |-> EmptyObj]
JSObj(o) == [k |-> "obj", o |-> o]

\* ----------------------------------------------------- JSON text in storage
\* The text stored under solosafe_user: nothing, the literal texts the code
\* tests for, a text that does not parse, or the JSON text of an object.
TextAbsent == [kind |-> "absent", obj |-> EmptyObj]
TextUndefined == [kind |-> "undefined", obj |-> EmptyObj]
TextNull == [kind |-> "null", obj |-> EmptyObj]
TextGarbage == [kind |-> "garbage", obj |-> EmptyObj]

\* JSON.stringify of an object: properties whose value is undefined are left out.
JSONstringify(o) ==
    [kind |-> "json",
     obj |-> [k \in {j \in DOMAIN o : j = "user" \/ o[j] # Undef} |-> o[k]]]

\* JSON.parse: throws on a text that is not JSON.
JSONparseThrows(text) == text.kind \in {"garbage", "undefined"}
JSONparse(text) == text.obj

\* ------------------------------------------------------------ small domains
\* T1: a token stored by an earlier login; T2: the token an OAuth redirect carries.
Tokens == {"T1", "T2"}
Profiles ==
    {EmptyObj, [name |-> "ann"], [name |-> "ann", email |-> "ann@x"],
     [username |-> "ann1", profilePicture |-> "pic0"]}
\* The token property of a stored record: missing, empty, or a token.
StoredTokens == {Undef, ""} \cup Tokens
\* The profile bodies the backend answers the profile fetch with.
FetchedProfiles == {[name |-> "bob", email |-> "bob@x"]}

FlatRecord(p, t) == Spread(p, [token |-> t])
NestedRecord(p, t) == [token |-> t, user |-> p]

\* Session records as the login views and this client leave them: every text
\* the readers of solosafe_user tell apart.
UserTexts ==
    {TextAbsent, TextUndefined, TextNull, TextGarbage}
    \cup {JSONstringify(FlatRecord(p, t)) : p \in Profiles, t \in StoredTokens}
    \cup {JSONstringify(NestedRecord(p, t)) : p \in Profiles, t \in StoredTokens}

\* The session records a page load starts from: none, an unparseable one, a
\* flat one with and without a token, a nested one.
LoadTexts ==
    {TextAbsent, TextGarbage,
     JSONstringify(FlatRecord([name |-> "ann"], "T1")),
     JSONstringify(FlatRecord([name |-> "ann"], Undef)),
     JSONstringify(NestedRecord([name |-> "ann", email |-> "ann@x"], "T1"))}

\* The objects updateUserProfile is called with: profile fields, and an object
\* that names the token property.
Updates == {[profilePicture |-> "pic"], [name |-> "zed"], [token |-> "T2"]}

OptionsSet ==
    {EmptyObj,
     [method |-> "POST", headers |-> ("X-Extra" :> "1")]}

\* Outcomes of one fetch: a status, or a transport failure (0).
Statuses == {200, 401, 500}
NetFail == 0

\* ------------------------------------------------------------------ trips
\* Dates are days relative to the moment getCurrentTrip runs: new Date() is 0.
Now == 0
\* Trips as the backend lists them: running now, over and Completed, over but
\* still marked active, running now but Completed, running now and neither.
TripSet ==
    {[id |-> 1, startDate |-> -1, endDate |-> 1, status |-> "active"],
     [id |-> 2, startDate |-> -10, endDate |-> -5, status |-> "Completed"],
     [id |-> 3, startDate |-> -10, endDate |-> -5, status |-> "active"],
     [id |-> 4, startDate |-> -1, endDate |-> 1, status |-> "Completed"],
     [id |-> 5, startDate |-> -2, endDate |-> 2, status |-> "upcoming"]}

TripLists == UNION {[1..n -> TripSet] : n \in 0..MaxTrips}

\* What a feature call hands back: undefined, null, a list of trips, one trip
\* (held in list).
RetUndefined == [k |-> "undefined", list |-> <<>>]
RetNull == [k |-> "null", list |-> <<>>]
RetList(l) == [k |-> "list", list |-> l]
RetTrip(t) == [k |-> "trip", list |-> <<t>>]
RetTrue == [k |-> "true", list |-> <<>>]
RetFalse == [k |-> "false", list |-> <<>>]

\* array.find(pred) || null, pred given as the set of elements it accepts
FindFirst(l, accepted) ==
    LET I == {i \in 1..Len(l) : l[i] \in accepted} IN
    IF I = {} THEN RetNull
    ELSE RetTrip(l[CHOOSE i \in I : \A j \in I : i <= j])

\* ------------------------------------------------------------ geolocation
\* navigator.geolocation as one page load finds it: missing, or a provider
\* that delivers a position, reports an error, or never calls back.
Providers == {"unsupported", "delivers", "rejects", "silent"}
\* position.coords of the position a provider delivers, and Date.now() then
Position == [lat |-> 6, lng |-> 3]
NoLocation == [k |-> "null", o |-> [lat |-> 0, lng |-> 0, timestamp |-> 0]]
LocationOf(position) ==
    [k |-> "obj",
     o |-> [lat |-> position.lat, lng |-> position.lng, timestamp |-> Now]]

VARIABLES
    variant,        \* "bearer" | "cookie": which source file is loaded
    feat,           \* the feature call in progress, if any, and what it did
    geo,            \* navigator.geolocation and the module's currentLocation
    storage,        \* localStorage: user, token, trips, signup, dark
    urlToken,       \* the token parameter of window.location.search, or Null
    protected,      \* whether the pathname names a protected page
    dcl,            \* the DOMContentLoaded handler and the OAuth exchange it awaits
    calls,          \* the gateway calls of this page load
    loginRedirects, \* setTimeout callbacks pending that go to login.html
    indexRedirects, \* setTimeout callbacks pending that go to index.html
    location,       \* "page" until a redirect fires, then the view it went to
    logouts,        \* the logout() calls so far: how many, the requests they sent
    expired,        \* history: a gateway call of this page load has handled a 401
    last            \* history: the synchronous store call the latest step made, if
                    \* any: its argument, the storage it found, what it returned

vars == <<variant, feat, geo, storage, urlToken, protected, dcl, calls, loginRedirects,
          indexRedirects, location, logouts, expired, last>>

Calls == 1..MaxCalls

\* ------------------------------------------------- storage primitives
setItem(st, key, val) == [st EXCEPT ![key] = val]
removeItem(st, key) ==
    [st EXCEPT ![key] = IF key = "user" THEN TextAbsent ELSE NoItem]

\* The first test both readers of solosafe_user make:
\* !userStr || userStr === 'undefined' || userStr === 'null'
NoUserStr(st) == st.user.kind \in {"absent", "undefined", "null"}

\* ------------------------------------------ session store, bearer variant
\* getAuthToken: the token of the session record when that record parses and
\* holds a truthy token, else the provisional OAuth token, else null.
getAuthToken_noFallback(st) ==
    IF NoUserStr(st) THEN (IF Truthy(st.token) THEN st.token ELSE Null)
    ELSE IF JSONparseThrows(st.user) THEN Null
    ELSE IF Truthy(Get(JSONparse(st.user), "token"))
    THEN Get(JSONparse(st.user), "token")
    ELSE IF Truthy(st.token) THEN st.token ELSE Null

getAuthToken(st) ==
    IF /\ ~NoUserStr(st)
       /\ ~JSONparseThrows(st.user)
       /\ Truthy(Get(JSONparse(st.user), "token"))
    THEN Get(JSONparse(st.user), "token")
    ELSE IF Truthy(st.token) THEN st.token ELSE Null

\* getAuthToken as a call: [token, st, threw].  It only reads storage, and the
\* catch around JSON.parse keeps the exception (part_000 lines 63-71).
getAuthTokenRun(st) == [token |-> getAuthToken(st), st |-> st, threw |-> FALSE]

\* getCurrentUser: [ret, st, threw].  A nested record is flattened, a flat one
\* returned as parsed, an unparseable one removed.
getCurrentUser_keepCorrupt(st) ==
    IF NoUserStr(st) THEN [ret |-> JSNull, st |-> st, threw |-> FALSE]
    ELSE IF JSONparseThrows(st.user)
    THEN [ret |-> JSNull, st |-> st, threw |-> FALSE]
    ELSE LET data == JSONparse(st.user) IN
         IF "user" \in DOMAIN data
         THEN [ret |-> JSObj(Spread(data.user, [token |-> Get(data, "token")])),
               st |-> st, threw |-> FALSE]
         ELSE [ret |-> JSObj(data), st |-> st, threw |-> FALSE]

getCurrentUser_noFlatten(st) ==
    IF NoUserStr(st) THEN [ret |-> JSNull, st |-> st, threw |-> FALSE]
    ELSE IF JSONparseThrows(st.user)
    THEN [ret |-> JSNull, st |-> removeItem(st, "user"), threw |-> FALSE]
    ELSE [ret |-> JSObj(JSONparse(st.user)), st |-> st, threw |-> FALSE]

getCurrentUser(st) ==
    IF NoUserStr(st) THEN [ret |-> JSNull, st |-> st, threw |-> FALSE]
    ELSE IF JSONparseThrows(st.user)
    THEN [ret |-> JSNull, st |-> removeItem(st, "user"), threw |-> FALSE]
    ELSE LET data == JSONparse(st.user) IN
         IF "user" \in DOMAIN data
         THEN [ret |-> JSObj(Spread(data.user, [token |-> Get(data, "token")])),
               st |-> st, threw |-> FALSE]
         ELSE [ret |-> JSObj(data), st |-> st, threw |-> FALSE]

\* getCurrentUser of src/script.js: the parsed record as it is.
getCurrentUserCookie(st) ==
    IF NoUserStr(st) THEN [ret |-> JSNull, st |-> st, threw |-> FALSE]
    ELSE IF JSONparseThrows(st.user)
    THEN [ret |-> JSNull, st |-> removeItem(st, "user"), threw |-> FALSE]
    ELSE [ret |-> JSObj(JSONparse(st.user)), st |-> st, threw |-> FALSE]

\* updateUserProfile: [ret, st, wrote], wrote the keys it called setItem on.
\* Both variants have the same text; each calls its own getCurrentUser.
updateUserProfileWith_overwrite(user, updates) ==
    IF user.ret.k = "null"
    THEN [ret |-> JSNull, st |-> user.st, wrote |-> {}]
    ELSE LET updatedUser == Spread([token |-> Get(user.ret.o, "token")], updates) IN
         [ret |-> JSObj(updatedUser),
          st |-> setItem(user.st, "user", JSONstringify(updatedUser)),
          wrote |-> {"user"}]

updateUserProfileWith(user, updates) ==
    IF user.ret.k = "null"
    THEN [ret |-> JSNull, st |-> user.st, wrote |-> {}]
    ELSE LET updatedUser == Spread(user.ret.o, updates) IN
         [ret |-> JSObj(updatedUser),
          st |-> setItem(user.st, "user", JSONstringify(updatedUser)),
          wrote |-> {"user"}]

updateUserProfile_noGuard(st, updates) ==
    LET user == getCurrentUser(st)
        updatedUser == Spread(user.ret.o, updates) IN
    [ret |-> IF user.ret.k = "null" THEN JSNull ELSE JSObj(updatedUser),
     st |-> setItem(user.st, "user", JSONstringify(updatedUser)),
     wrote |-> {"user"}]

updateUserProfile(st, updates) == updateUserProfileWith(getCurrentUser(st), updates)

updateUserProfileCookie(st, updates) ==
    updateUserProfileWith(getCurrentUserCookie(st), updates)

\* --------------------------------------------------- gateway, bearer variant
Bearer(t) == "Bearer " \o t
IsOk(status) == status >= 200 /\ status <= 299

\* mergedOptions of authenticatedFetch: the default headers spread with
\* options.headers, then the whole of options spread over the defaults.
OptionHeaders(options) ==
    IF "headers" \in DOMAIN options THEN options.headers ELSE EmptyObj

mergedOptions(token, options) ==
    LET defaultOptions ==
            [headers |-> Spread(("Content-Type" :> "application/json")
                                  @@ ("Authorization" :> Bearer(token)),
                                OptionHeaders(options))]
    IN  Spread(defaultOptions, options)

mergedOptionsCookie(options) ==
    LET defaultOptions ==
            [headers |-> Spread(("Content-Type" :> "application/json"),
                                OptionHeaders(options))]
    IN  Spread(defaultOptions, options)

\* What one part of a gateway call did: the requests it issued (sent, req), the
\* toast it showed, the login redirects it scheduled, what it returned
\* ("pending" while the fetch is awaited; resp is the status of the response
\* object it returned, NetFail when it returned none), and the storage it left.
Effect(sent, req, toast, redirects, ret, resp, st) ==
    [sent |-> sent, req |-> req, toast |-> toast, redirects |-> redirects,
     ret |-> ret, resp |-> resp, st |-> st]

\* authenticatedFetch up to its await (part_000 lines 262-284).
authenticatedFetchSend_noGuard(st, options) ==
    Effect(1, mergedOptions(getAuthToken(st), options), "none", 0, "pending", NetFail, st)

authenticatedFetchSend(st, options) ==
    LET token == getAuthToken(st) IN
    IF ~Truthy(token)
    THEN Effect(0, EmptyObj, "warning", 1, "null", NetFail, st)
    ELSE Effect(1, mergedOptions(token, options), "none", 0, "pending", NetFail, st)

\* authenticatedFetch after its await (part_000 lines 284-302).
authenticatedFetchRecv_keepToken(st, status) ==
    IF status = NetFail THEN Effect(0, EmptyObj, "error", 0, "threw", NetFail, st)
    ELSE IF status = 401
    THEN Effect(0, EmptyObj, "warning", 1, "null", NetFail,
                removeItem(st, "user"))
    ELSE Effect(0, EmptyObj, "none", 0, "response", status, st)

authenticatedFetchRecv_purgeNotOk(st, status) ==
    IF status = NetFail THEN Effect(0, EmptyObj, "error", 0, "threw", NetFail, st)
    ELSE IF ~IsOk(status)
    THEN Effect(0, EmptyObj, "warning", 1, "null", NetFail,
                removeItem(removeItem(st, "user"), "token"))
    ELSE Effect(0, EmptyObj, "none", 0, "response", status, st)

authenticatedFetchRecv_retry(st, status) ==
    IF status = NetFail
    THEN Effect(1, EmptyObj, "error", 0, "threw", NetFail, st)
    ELSE IF status = 401
    THEN Effect(0, EmptyObj, "warning", 1, "null", NetFail,
                removeItem(removeItem(st, "user"), "token"))
    ELSE Effect(0, EmptyObj, "none", 0, "response", status, st)

authenticatedFetchRecv(st, status) ==
    IF status = NetFail THEN Effect(0, EmptyObj, "error", 0, "threw", NetFail, st)
    ELSE IF status = 401
    THEN Effect(0, EmptyObj, "warning", 1, "null", NetFail,
                removeItem(removeItem(st, "user"), "token"))
    ELSE Effect(0, EmptyObj, "none", 0, "response", status, st)

\* ---------------------------------------------------- gateway, cookie variant
authenticatedFetchSendCookie(st, options) ==
    Effect(1, mergedOptionsCookie(options), "none", 0, "pending", NetFail, st)

authenticatedFetchRecvCookie(st, status) ==
    IF status = NetFail THEN Effect(0, EmptyObj, "error", 0, "threw", NetFail, st)
    ELSE IF status = 401
    THEN Effect(0, EmptyObj, "warning", 1, "null", NetFail,
                removeItem(st, "user"))
    ELSE Effect(0, EmptyObj, "none", 0, "response", status, st)

\* ------------------------------------------------------------------ logout
\* logout of part_000 (lines 229-252): [sent, auth, st, toast, redirects], the
\* redirect being to index.html.
logout_keepTrips(st) ==
    LET token == getAuthToken(st) IN
    [sent |-> IF Truthy(token) THEN 1 ELSE 0,
     auth |-> IF Truthy(token) THEN Bearer(token) ELSE "none",
     st |-> removeItem(removeItem(removeItem(st, "user"), "token"), "signup"),
     toast |-> "success", redirects |-> 1]

logout_noGuard(st) ==
    LET token == getAuthToken(st) IN
    [sent |-> 1, auth |-> Bearer(token),
     st |-> removeItem(removeItem(removeItem(removeItem(st, "user"), "token"),
                                  "trips"), "signup"),
     toast |-> "success", redirects |-> 1]

logout(st) ==
    LET token == getAuthToken(st) IN
    [sent |-> IF Truthy(token) THEN 1 ELSE 0,
     auth |-> IF Truthy(token) THEN Bearer(token) ELSE "none",
     st |-> removeItem(removeItem(removeItem(removeItem(st, "user"), "token"),
                                  "trips"), "signup"),
     toast |-> "success", redirects |-> 1]

\* logout of script.js (lines 164-180): the request goes out with
\* credentials: 'include' whatever the storage holds.
logoutCookie(st) ==
    [sent |-> 1, auth |-> "credentials:include",
     st |-> removeItem(removeItem(removeItem(st, "user"), "trips"), "signup"),
     toast |-> "success", redirects |-> 1]

\* -------------------------------------------------------------- dark mode
\* toggleDarkMode (part_000 lines 44-49, script.js 80-85): the body class,
\* which initializeDarkMode set from the stored flag when the page loaded, is
\* toggled and its new state stored.
toggleDarkMode(st) ==
    LET isDark == ~(st.dark = "true") IN
    setItem(st, "dark", IF isDark THEN "true" ELSE "false")

\* ------------------------------------------------------- OAuth callback
\* A response to the profile fetch: its status (NetFail: the fetch rejected),
\* and whether response.json() parses, and to what.
ProfileOutcomes ==
    {[status |-> NetFail, parses |-> FALSE, body |-> EmptyObj],
     [status |-> 500, parses |-> TRUE, body |-> EmptyObj],
     [status |-> 200, parses |-> FALSE, body |-> EmptyObj]}
    \cup {[status |-> 200, parses |-> TRUE, body |-> p] : p \in FetchedProfiles}

\* fetchUserProfile after its awaits (lines 132-150): [threw, st, ret].  token
\* is what getAuthToken returned before the request was issued.
fetchUserProfileRecv(st, token, out) ==
    IF out.status = NetFail \/ ~IsOk(out.status) \/ ~out.parses
    THEN [threw |-> TRUE, st |-> st, ret |-> JSNull]
    ELSE LET userToStore == Spread(out.body, [token |-> token]) IN
         [threw |-> FALSE, st |-> setItem(st, "user", JSONstringify(userToStore)),
          ret |-> JSObj(userToStore)]

\* What handleGoogleCallback did by the time it returned ret: the storage and
\* the token parameter of the URL it left, the toast it showed, the redirects
\* to login.html it scheduled.
GcResult(ret, st, url, toast, redirects) ==
    [ret |-> ret, st |-> st, url |-> url, toast |-> toast, redirects |-> redirects]

\* handleGoogleCallback after `await fetchUserProfile()` (lines 172-199).
handleGoogleCallbackRecv_noCleanup(st, url, token, out) ==
    LET user == fetchUserProfileRecv(st, token, out) IN
    IF ~user.threw
    THEN GcResult("true", removeItem(user.st, "token"), Null, "success", 0)
    ELSE GcResult("false", removeItem(user.st, "token"), url, "error", 1)

handleGoogleCallbackRecv_keepUrl(st, url, token, out) ==
    LET user == fetchUserProfileRecv(st, token, out) IN
    IF ~user.threw
    THEN GcResult("true", removeItem(user.st, "token"), url, "success", 0)
    ELSE GcResult("false", removeItem(removeItem(user.st, "token"), "user"),
                  url, "error", 1)

handleGoogleCallbackRecv(st, url, token, out) ==
    LET user == fetchUserProfileRecv(st, token, out) IN
    IF ~user.threw
    THEN GcResult("true", removeItem(user.st, "token"), Null, "success", 0)
    ELSE GcResult("false", removeItem(removeItem(user.st, "token"), "user"),
                  url, "error", 1)

\* ---------------------------------------------------- protected-page check
\* The check of the DOMContentLoaded handler: [ran, st, toast, redirects, ui].
\* part_000 lines 919-931.
protectedPageCheck_uiAlways(st, isProtectedPage) ==
    IF ~isProtectedPage
    THEN [ran |-> 0, st |-> st, toast |-> "none", redirects |-> 0, ui |-> FALSE]
    ELSE LET user == getCurrentUser(st) IN
         IF user.ret.k = "null"
         THEN [ran |-> 1, st |-> user.st, toast |-> "warning", redirects |-> 1,
               ui |-> TRUE]
         ELSE [ran |-> 1, st |-> user.st, toast |-> "none", redirects |-> 0,
               ui |-> TRUE]

protectedPageCheck(st, isProtectedPage) ==
    IF ~isProtectedPage
    THEN [ran |-> 0, st |-> st, toast |-> "none", redirects |-> 0, ui |-> FALSE]
    ELSE LET user == getCurrentUser(st) IN
         IF user.ret.k = "null"
         THEN [ran |-> 1, st |-> user.st, toast |-> "warning", redirects |-> 1,
               ui |-> FALSE]
         ELSE [ran |-> 1, st |-> user.st, toast |-> "none", redirects |-> 0,
               ui |-> TRUE]

\* script.js lines 699-707.
protectedPageCheckCookie(st, isProtectedPage) ==
    IF ~isProtectedPage
    THEN [ran |-> 0, st |-> st, toast |-> "none", redirects |-> 0, ui |-> FALSE]
    ELSE LET user == getCurrentUserCookie(st) IN
         IF user.ret.k = "null"
         THEN [ran |-> 1, st |-> user.st, toast |-> "warning", redirects |-> 1,
               ui |-> FALSE]
         ELSE [ran |-> 1, st |-> user.st, toast |-> "none", redirects |-> 0,
               ui |-> FALSE]

\* ------------------------------------------------------- one-shot location
\* The third argument of getCurrentPosition: part_000 lines 595-599; script.js
\* passes none (lines 413-424), which leaves the timeout unbounded.
PositionOptions(v) ==
    IF v = "bearer"
    THEN [enableHighAccuracy |-> TRUE, timeout |-> 10000, maximumAge |-> 0]
    ELSE EmptyObj

\* getCurrentLocation up to the provider's callback: rejected at once when
\* navigator.geolocation is missing, else pending.
getCurrentLocationStart(g) ==
    IF g.provider = "unsupported" THEN "rejected" ELSE "pending"

\* The callbacks the browser may make for a pending getCurrentPosition: the
\* success callback, the error callback with the provider's error, or the error
\* callback with TIMEOUT once the timeout option has run out.
LocationCallbacks(v, g) ==
    CASE g.provider = "delivers" -> {"delivered"}
      [] g.provider = "rejects" -> {"rejected"}
      [] g.provider = "silent" ->
            IF "timeout" \in DOMAIN PositionOptions(v) THEN {"timeout"} ELSE {}
      [] OTHER -> {}

\* `await getCurrentLocation().catch(() => null)`: the location, or null.
AwaitedLocation(settled) ==
    IF settled = "delivered" THEN LocationOf(Position) ELSE NoLocation

\* ------------------------------------------------------------ feature calls
\* location ? { lat: location.lat, lng: location.lng } : null
locationBody_noNullCheck(loc) == JSObj([lat |-> loc.o.lat, lng |-> loc.o.lng])

locationBody(loc) ==
    IF loc.k = "obj" THEN JSObj([lat |-> loc.o.lat, lng |-> loc.o.lng]) ELSE JSNull

\* The options checkIn and triggerSOS call the gateway with; of the JSON body
\* the location is kept (tripId and timestamp do not depend on the session).
checkInOptions(loc) == [method |-> "PUT", body |-> [location |-> locationBody(loc)]]
triggerSOSOptions(loc) == [method |-> "POST", body |-> [location |-> locationBody(loc)]]

\* The options of the remaining feature calls: the method, and the JSON body
\* built from the argument.
createTripOptions == [method |-> "POST", body |-> [destination |-> "lagos"]]
updateTripOptions == [method |-> "PUT", body |-> [destination |-> "abuja"]]
endTripOptions == [method |-> "PUT"]
addContactOptions == [method |-> "PUT", body |-> [name |-> "ann"]]
removeContactOptions == [method |-> "DELETE"]
changePasswordOptions == [method |-> "PUT", body |-> [oldPassword |-> "old", newPassword |-> "new"]]

FeatureOps ==
    {"checkIn", "triggerSOS", "getAllTrips", "getCurrentTrip", "createTrip",
     "updateTrip", "endTrip", "addContact", "removeContact", "changePassword"}
LocatingOps == {"checkIn", "triggerSOS"}

\* The feature calls of a variant: script.js has no getAllTrips.
FeatureOpsOf(v) == IF v = "bearer" THEN FeatureOps ELSE FeatureOps \ {"getAllTrips"}

featureOptions(op, loc) ==
    CASE op = "checkIn" -> checkInOptions(loc)
      [] op = "triggerSOS" -> triggerSOSOptions(loc)
      [] op = "createTrip" -> createTripOptions
      [] op = "updateTrip" -> updateTripOptions
      [] op = "endTrip" -> endTripOptions
      [] op = "addContact" -> addContactOptions
      [] op = "removeContact" -> removeContactOptions
      [] op = "changePassword" -> changePasswordOptions
      [] OTHER -> EmptyObj

\* The gateway of the variant loaded.
gatewaySend(v, st, options) ==
    IF v = "bearer" THEN authenticatedFetchSend(st, options)
    ELSE authenticatedFetchSendCookie(st, options)

gatewayRecv(v, st, status) ==
    IF v = "bearer" THEN authenticatedFetchRecv(st, status)
    ELSE authenticatedFetchRecvCookie(st, status)

\* A response as a feature call reads it: its status, whether response.json()
\* parses, and the body: a bare array of trips ("array"), an object with a
\* trips property ("object"), an object with a trip property ("trip"), an
\* object with neither ("other"), or the JSON value null ("null").
Outcome(status, parses, shape, trips) ==
    [status |-> status, parses |-> parses, shape |-> shape, trips |-> trips]

PlainOutcomes ==
    {Outcome(NetFail, FALSE, "other", <<>>)}
    \cup {Outcome(s, b, "other", <<>>) : s \in Statuses, b \in BOOLEAN}

TripOutcomes ==
    PlainOutcomes
    \cup {Outcome(200, TRUE, sh, l) : sh \in {"array", "object"}, l \in TripLists}

NullOutcomes == {Outcome(s, TRUE, "null", <<>>) : s \in {200, 500}}

DataOutcomes ==
    PlainOutcomes \cup NullOutcomes
    \cup {Outcome(200, TRUE, "trip", <<t>>) : t \in {u \in TripSet : u.id = 1}}

OutcomesOf(op) ==
    IF op \in LocatingOps THEN PlainOutcomes
    ELSE IF op \in {"getAllTrips", "getCurrentTrip"} THEN TripOutcomes \cup NullOutcomes
    ELSE DataOutcomes

\* What a feature call did after the gateway returned gw (an Effect): what it
\* returned, the storage it left, the toast it showed itself, whether it sent
\* a notification, whether its success branch ran, the requests it sent beyond
\* the gateway's (none: no feature call calls the gateway twice), and whether
\* an exception left it (none: each body is one try/catch that returns).
FeatResult(ret, st, toast, notified, ok) ==
    [ret |-> ret, st |-> st, toast |-> toast, notified |-> notified, ok |-> ok,
     sent |-> 0, threw |-> FALSE]

\* checkIn after `await authenticatedFetch` (part_000 lines 458-472).
checkInRecv(gw, out) ==
    IF gw.ret = "threw" THEN FeatResult(RetUndefined, gw.st, "error", FALSE, FALSE)
    ELSE IF gw.ret = "null" THEN FeatResult(RetUndefined, gw.st, "none", FALSE, FALSE)
    ELSE IF out.parses /\ IsOk(out.status)
    THEN FeatResult(RetUndefined, gw.st, "success", TRUE, TRUE)
    ELSE FeatResult(RetUndefined, gw.st, "error", FALSE, FALSE)

\* triggerSOS after `await authenticatedFetch` (part_000 lines 495-506): the
\* body is not read, and a response that is not ok is passed over in silence.
triggerSOSRecv(gw, out) ==
    IF gw.ret = "threw" THEN FeatResult(RetUndefined, gw.st, "error", FALSE, FALSE)
    ELSE IF gw.ret = "null" THEN FeatResult(RetUndefined, gw.st, "none", FALSE, FALSE)
    ELSE IF IsOk(out.status)
    THEN FeatResult(RetUndefined, gw.st, "warning", TRUE, TRUE)
    ELSE FeatResult(RetUndefined, gw.st, "none", FALSE, FALSE)

\* getAllTrips after `await authenticatedFetch` (part_000 lines 343-357).
getAllTripsRecv(gw, out) ==
    IF gw.ret = "threw" THEN FeatResult(RetList(<<>>), gw.st, "none", FALSE, FALSE)
    ELSE IF gw.ret = "null" THEN FeatResult(RetList(<<>>), gw.st, "none", FALSE, FALSE)
    ELSE IF ~out.parses THEN FeatResult(RetList(<<>>), gw.st, "none", FALSE, FALSE)
    ELSE IF IsOk(out.status) /\ out.shape = "array"
    THEN FeatResult(RetList(out.trips), setItem(gw.st, "trips", ToString(out.trips)),
                    "none", FALSE, TRUE)
    ELSE FeatResult(RetList(<<>>), gw.st, "none", FALSE, FALSE)

\* The trips the find of getCurrentTrip accepts (part_000 lines 369-373).
IsCurrentTrip(t) == t.startDate <= Now /\ Now <= t.endDate /\ t.status # "Completed"

\* getCurrentTrip of part_000 after `await getAllTrips()` (lines 365-374).
getCurrentTripRecv(gw, out) ==
    LET all == getAllTripsRecv(gw, out)
        trips == all.ret.list IN
    FeatResult(FindFirst(trips, {t \in TripSet : IsCurrentTrip(t)}), all.st,
               "none", FALSE, all.ok)

\* getCurrentTrip of script.js after `await authenticatedFetch` (lines 214-227).
getCurrentTripRecvCookie(gw, out) ==
    IF gw.ret = "threw" THEN FeatResult(RetNull, gw.st, "none", FALSE, FALSE)
    ELSE IF gw.ret = "null" THEN FeatResult(RetNull, gw.st, "none", FALSE, FALSE)
    ELSE IF ~out.parses THEN FeatResult(RetNull, gw.st, "none", FALSE, FALSE)
    ELSE IF IsOk(out.status) /\ out.shape = "object"
    THEN FeatResult(FindFirst(out.trips, {t \in TripSet : t.status = "active"}),
                    gw.st, "none", FALSE, TRUE)
    ELSE FeatResult(RetNull, gw.st, "none", FALSE, FALSE)

\* createTrip after `await authenticatedFetch` (part_000 lines 319-333): a
\* response without a trip throws into the catch, which shows the error toast.
createTripRecv_retry(gw, out) ==
    IF gw.ret = "response" /\ out.parses /\ IsOk(out.status) /\ out.shape = "trip"
    THEN FeatResult(RetTrip(out.trips[1]), gw.st, "success", FALSE, TRUE)
    ELSE [FeatResult(RetNull, gw.st, "error", FALSE, FALSE) EXCEPT !.sent = 1]

createTripRecv(gw, out) ==
    IF gw.ret = "threw" THEN FeatResult(RetNull, gw.st, "error", FALSE, FALSE)
    ELSE IF gw.ret = "null" THEN FeatResult(RetNull, gw.st, "none", FALSE, FALSE)
    ELSE IF ~out.parses THEN FeatResult(RetNull, gw.st, "error", FALSE, FALSE)
    ELSE IF IsOk(out.status) /\ out.shape = "trip"
    THEN FeatResult(RetTrip(out.trips[1]), gw.st, "success", FALSE, TRUE)
    ELSE FeatResult(RetNull, gw.st, "error", FALSE, FALSE)

\* updateTrip after `await authenticatedFetch` (part_000 lines 390-404): no
\* toast on any path.
updateTripRecv_cache(gw, out) ==
    IF gw.ret = "threw" THEN FeatResult(RetNull, gw.st, "none", FALSE, FALSE)
    ELSE IF gw.ret = "null" THEN FeatResult(RetNull, gw.st, "none", FALSE, FALSE)
    ELSE IF ~out.parses THEN FeatResult(RetNull, gw.st, "none", FALSE, FALSE)
    ELSE IF IsOk(out.status) /\ out.shape = "trip"
    THEN FeatResult(RetTrip(out.trips[1]), setItem(gw.st, "trips", ToString(out.trips)),
                    "none", FALSE, TRUE)
    ELSE FeatResult(RetNull, gw.st, "none", FALSE, FALSE)

updateTripRecv(gw, out) ==
    IF gw.ret = "threw" THEN FeatResult(RetNull, gw.st, "none", FALSE, FALSE)
    ELSE IF gw.ret = "null" THEN FeatResult(RetNull, gw.st, "none", FALSE, FALSE)
    ELSE IF ~out.parses THEN FeatResult(RetNull, gw.st, "none", FALSE, FALSE)
    ELSE IF IsOk(out.status) /\ out.shape = "trip"
    THEN FeatResult(RetTrip(out.trips[1]), gw.st, "none", FALSE, TRUE)
    ELSE FeatResult(RetNull, gw.st, "none", FALSE, FALSE)

\* endTrip after `await authenticatedFetch` (part_000 lines 418-435): a
\* response that is not ok returns null in silence; `data.trip` of a null body
\* throws into the catch.
endTripRecv(gw, out) ==
    IF gw.ret = "threw" THEN FeatResult(RetNull, gw.st, "error", FALSE, FALSE)
    ELSE IF gw.ret = "null" THEN FeatResult(RetNull, gw.st, "none", FALSE, FALSE)
    ELSE IF ~out.parses THEN FeatResult(RetNull, gw.st, "error", FALSE, FALSE)
    ELSE IF IsOk(out.status) /\ out.shape = "trip"
    THEN FeatResult(RetTrip(out.trips[1]), gw.st, "success", TRUE, TRUE)
    ELSE IF IsOk(out.status) /\ out.shape = "null"
    THEN FeatResult(RetNull, gw.st, "error", FALSE, FALSE)
    ELSE FeatResult(RetNull, gw.st, "none", FALSE, FALSE)

\* addContact after `await authenticatedFetch` (part_000 lines 524-541): an ok
\* response returns data.trip, whatever it is; with a null body the success
\* toast and the notification come first and `data.trip` then throws into the
\* catch, whose error toast is the last one shown.
addContactRecv(gw, out) ==
    IF gw.ret = "threw" THEN FeatResult(RetNull, gw.st, "error", FALSE, FALSE)
    ELSE IF gw.ret = "null" THEN FeatResult(RetNull, gw.st, "none", FALSE, FALSE)
    ELSE IF ~out.parses THEN FeatResult(RetNull, gw.st, "error", FALSE, FALSE)
    ELSE IF IsOk(out.status) /\ out.shape = "trip"
    THEN FeatResult(RetTrip(out.trips[1]), gw.st, "success", TRUE, TRUE)
    ELSE IF IsOk(out.status) /\ out.shape = "null"
    THEN FeatResult(RetNull, gw.st, "error", TRUE, FALSE)
    ELSE IF IsOk(out.status)
    THEN FeatResult(RetUndefined, gw.st, "success", TRUE, TRUE)
    ELSE FeatResult(RetNull, gw.st, "none", FALSE, FALSE)

\* removeContact after `await authenticatedFetch` (part_000 lines 553-564):
\* the body is not read and nothing is returned.
removeContactRecv(gw, out) ==
    IF gw.ret = "threw" THEN FeatResult(RetUndefined, gw.st, "error", FALSE, FALSE)
    ELSE IF gw.ret = "null" THEN FeatResult(RetUndefined, gw.st, "none", FALSE, FALSE)
    ELSE IF IsOk(out.status)
    THEN FeatResult(RetUndefined, gw.st, "info", FALSE, TRUE)
    ELSE FeatResult(RetUndefined, gw.st, "none", FALSE, FALSE)

\* changePassword after `await authenticatedFetch` (part_000 lines 803-821).
changePasswordRecv_noCatch(gw, out) ==
    IF gw.ret = "threw" \/ (gw.ret = "response" /\ ~out.parses)
    THEN [FeatResult(RetUndefined, gw.st, "none", FALSE, FALSE) EXCEPT !.threw = TRUE]
    ELSE IF gw.ret = "null" THEN FeatResult(RetFalse, gw.st, "none", FALSE, FALSE)
    ELSE IF IsOk(out.status) THEN FeatResult(RetTrue, gw.st, "success", FALSE, TRUE)
    ELSE FeatResult(RetFalse, gw.st, "error", FALSE, FALSE)

changePasswordRecv(gw, out) ==
    IF gw.ret = "threw" THEN FeatResult(RetFalse, gw.st, "error", FALSE, FALSE)
    ELSE IF gw.ret = "null" THEN FeatResult(RetFalse, gw.st, "none", FALSE, FALSE)
    ELSE IF ~out.parses THEN FeatResult(RetFalse, gw.st, "error", FALSE, FALSE)
    ELSE IF IsOk(out.status) THEN FeatResult(RetTrue, gw.st, "success", FALSE, TRUE)
    ELSE FeatResult(RetFalse, gw.st, "error", FALSE, FALSE)

featureRecv(v, op, gw, out) ==
    CASE op = "checkIn" -> checkInRecv(gw, out)
      [] op = "triggerSOS" -> triggerSOSRecv(gw, out)
      [] op = "getAllTrips" -> getAllTripsRecv(gw, out)
      [] op = "createTrip" -> createTripRecv(gw, out)
      [] op = "updateTrip" -> updateTripRecv(gw, out)
      [] op = "endTrip" -> endTripRecv(gw, out)
      [] op = "addContact" -> addContactRecv(gw, out)
      [] op = "removeContact" -> removeContactRecv(gw, out)
      [] op = "changePassword" -> changePasswordRecv(gw, out)
      [] OTHER -> IF v = "bearer" THEN getCurrentTripRecv(gw, out)
                  ELSE getCurrentTripRecvCookie(gw, out)

\* ------------------------------------------------------------------- Init
IdleCall ==
    [pc |-> "idle", options |-> EmptyObj, tokenSeen |-> Null, req |-> EmptyObj,
     sent |-> 0, toast |-> "none", redirects |-> 0, ret |-> "none", resp |-> NetFail,
     status |-> NetFail, afterExpired |-> FALSE]

\* A call of handleGoogleCallback after the load handler has finished: the
\* calls so far, whether an exchange had succeeded before this one, the token
\* parameter it read, what it sent, returned, showed and scheduled, and
\* whether it wrote to storage.
IdleAgain ==
    [pc |-> "idle", n |-> 0, afterSuccess |-> FALSE, param |-> Null, token |-> Null,
     reqAuth |-> "none", sent |-> 0, ret |-> "none", toast |-> "none",
     redirects |-> 0, wrote |-> FALSE]

\* The DOMContentLoaded handler: found records whether getCurrentUser returned
\* a user to the check.
InitDcl ==
    [pc |-> "start", param |-> Null, token |-> Null, reqAuth |-> "none", sent |-> 0,
     status |-> NetFail, parses |-> FALSE, body |-> EmptyObj,
     gcRet |-> "none", gcToast |-> "none", gcRedirects |-> 0,
     checks |-> 0, authAtCheck |-> FALSE, checkToast |-> "none",
     checkRedirects |-> 0, ui |-> FALSE, found |-> FALSE, again |-> IdleAgain]

\* No feature call yet.  settled: how getCurrentLocation settled; invoked, sent:
\* calls of the gateway and requests issued; out: the response received.
IdleFeat ==
    [op |-> "none", pc |-> "idle", credAtCall |-> FALSE, settled |-> "none",
     loc |-> NoLocation, invoked |-> 0, options |-> EmptyObj, tokenSeen |-> Null,
     credAtInvoke |-> FALSE, req |-> EmptyObj, sent |-> 0, gwToast |-> "none",
     gwRet |-> "none", redirects |-> 0, out |-> Outcome(NetFail, FALSE, "other", <<>>),
     ret |-> RetUndefined, toast |-> "none", notified |-> FALSE, ok |-> FALSE,
     threw |-> FALSE]

\* `let watchId = null`, held as 0: the ids watchPosition returns are positive.
NoWatch == 0

\* navigator.geolocation and the module's watchId and currentLocation: the
\* watches the browser holds active, the number of ids it has handed out, the
\* watch whose callback last wrote currentLocation, the last tracking toast.
IdleGeo ==
    [provider |-> "unsupported", currentLocation |-> NoLocation, watchId |-> NoWatch,
     watches |-> {}, issued |-> 0, writer |-> NoWatch, toast |-> "none"]

\* The logout() calls so far: how many, the requests they sent, the
\* credential of the last request, the requests not yet settled and how the
\* last one settled.
IdleLogouts == [n |-> 0, sent |-> 0, auth |-> "none", pending |-> 0, outcome |-> "none"]

NoOp ==
    [op |-> "none", arg |-> EmptyObj, pre |-> EmptyObj, ret |-> JSNull, wrote |-> {},
     threw |-> FALSE, token |-> Null]

\* The other persisted keys (cached trip list, signup draft, dark-mode flag):
\* none stored, or all of them.
AuxItems ==
    {[trips |-> NoItem, signup |-> NoItem, dark |-> NoItem],
     [trips |-> "[trips]", signup |-> "{draft}", dark |-> "true"]}

Init ==
    /\ variant \in {"bearer", "cookie"}
    /\ \E u \in LoadTexts, t \in {NoItem, "T1"}, aux \in AuxItems :
         storage = [user |-> u, token |-> t, trips |-> aux.trips,
                    signup |-> aux.signup, dark |-> aux.dark]
    \* only part_000 ever writes solosafe_token or reads the token parameter
    /\ variant = "cookie" => storage.token = NoItem
    /\ urlToken \in {Null, "T2"}
    /\ variant = "cookie" => urlToken = Null
    /\ protected \in BOOLEAN
    /\ dcl = InitDcl
    /\ calls = [c \in Calls |-> IdleCall]
    /\ loginRedirects = 0
    /\ indexRedirects = 0
    /\ location = "page"
    /\ logouts = IdleLogouts
    /\ expired = FALSE
    /\ last = NoOp
    /\ feat = IdleFeat
    /\ geo = IdleGeo

\* Handlers run while the page is loaded and after DOMContentLoaded has fired.
Running == location = "page" /\ dcl.pc # "start"

\* ------------------------------------------------- DOMContentLoaded handler
\* The handler's steps 2-4 (part_000 lines 913-931), run on the storage st that
\* handleGoogleCallback left.  authAtCheck records whether a credential was
\* retrievable when the check ran.
AfterCheck(d, st, chk) ==
    [d EXCEPT !.pc = "done", !.checks = chk.ran,
              !.authAtCheck = Truthy(getAuthToken(st)),
              !.checkToast = chk.toast, !.checkRedirects = chk.redirects,
              !.ui = chk.ui, !.found = getCurrentUser(st).ret.k # "null"]

\* part_000 lines 907-932 with handleGoogleCallback (157-172) and
\* fetchUserProfile (116-130) up to the await of fetch.
DOMContentLoaded ==
    /\ variant = "bearer"
    /\ location = "page"
    /\ dcl.pc = "start"
    /\ IF ~Truthy(urlToken)
       THEN \* handleGoogleCallback returns false; the check follows at once
            LET chk == protectedPageCheck(storage, protected) IN
            /\ dcl' = AfterCheck([dcl EXCEPT !.gcRet = "false"], storage, chk)
            /\ storage' = chk.st
            /\ loginRedirects' = loginRedirects + chk.redirects
       ELSE LET st1 == setItem(storage, "token", urlToken)
                token == getAuthToken(st1) IN
            /\ dcl' = [dcl EXCEPT !.pc = "awaitProfile", !.param = urlToken,
                                  !.token = token, !.reqAuth = Bearer(token),
                                  !.sent = 1]
            /\ storage' = st1
            /\ UNCHANGED loginRedirects
    /\ last' = NoOp
    /\ UNCHANGED <<variant, feat, geo, urlToken, protected, calls, indexRedirects, location,
                   logouts, expired>>

\* script.js lines 690-708.
DOMContentLoadedCookie ==
    /\ variant = "cookie"
    /\ location = "page"
    /\ dcl.pc = "start"
    /\ LET chk == protectedPageCheckCookie(storage, protected) IN
       /\ dcl' = [AfterCheck(dcl, storage, chk) EXCEPT !.authAtCheck = FALSE]
       /\ storage' = chk.st
       /\ loginRedirects' = loginRedirects + chk.redirects
    /\ last' = NoOp
    /\ UNCHANGED <<variant, feat, geo, urlToken, protected, calls, indexRedirects, location,
                   logouts, expired>>

\* The profile fetch settles: fetchUserProfile 132-150, handleGoogleCallback
\* 172-199, then the rest of the DOMContentLoaded handler, 913-931.  The
\* continuations run back to back as microtasks: no other handler runs between.
ProfileResponse ==
    /\ location = "page"
    /\ dcl.pc = "awaitProfile"
    /\ \E out \in ProfileOutcomes :
         LET gc == handleGoogleCallbackRecv(storage, urlToken, dcl.token, out)
             chk == protectedPageCheck(gc.st, protected) IN
         /\ dcl' = AfterCheck([dcl EXCEPT !.status = out.status,
                                          !.parses = out.parses,
                                          !.body = out.body, !.gcRet = gc.ret,
                                          !.gcToast = gc.toast,
                                          !.gcRedirects = gc.redirects],
                              gc.st, chk)
         /\ storage' = chk.st
         /\ urlToken' = gc.url
         /\ loginRedirects' = loginRedirects + gc.redirects + chk.redirects
    /\ last' = NoOp
    /\ UNCHANGED <<variant, feat, geo, protected, calls, indexRedirects, location, logouts,
                   expired>>

\* ------------------------------------------------------------ gateway calls
\* A caller invokes authenticatedFetch(url, options): part_000 lines 262-284.
authenticatedFetchCall(c) ==
    /\ variant = "bearer"
    /\ Running
    /\ calls[c].pc = "idle"
    /\ \A d \in Calls : d < c => calls[d].pc # "idle"
    /\ \E options \in OptionsSet :
         LET e == authenticatedFetchSend(storage, options) IN
         /\ calls' = [calls EXCEPT ![c] =
                        [@ EXCEPT !.pc = IF e.ret = "pending" THEN "inflight" ELSE "done",
                                  !.options = options,
                                  !.tokenSeen = getAuthToken(storage),
                                  !.req = e.req, !.sent = e.sent, !.toast = e.toast,
                                  !.redirects = e.redirects, !.ret = e.ret,
                                  !.afterExpired = expired]]
         /\ storage' = e.st
         /\ loginRedirects' = loginRedirects + e.redirects
    /\ last' = NoOp
    /\ UNCHANGED <<variant, feat, geo, logouts, urlToken, protected, dcl, indexRedirects, location,
                   expired>>

\* The awaited fetch settles: part_000 lines 284-302.
authenticatedFetchSettle(c) ==
    /\ variant = "bearer"
    /\ Running
    /\ calls[c].pc = "inflight"
    /\ \E status \in Statuses \cup {NetFail} :
         LET e == authenticatedFetchRecv(storage, status) IN
         /\ calls' = [calls EXCEPT ![c] =
                        [@ EXCEPT !.pc = "done", !.status = status,
                                  !.sent = @ + e.sent, !.toast = e.toast,
                                  !.redirects = e.redirects, !.ret = e.ret,
                                  !.resp = e.resp]]
         /\ storage' = e.st
         /\ loginRedirects' = loginRedirects + e.redirects
         /\ expired' = (expired \/ status = 401)
    /\ last' = NoOp
    /\ UNCHANGED <<variant, feat, geo, logouts, urlToken, protected, dcl, indexRedirects, location>>

\* script.js lines 91-103.
authenticatedFetchCallCookie(c) ==
    /\ variant = "cookie"
    /\ Running
    /\ calls[c].pc = "idle"
    /\ \A d \in Calls : d < c => calls[d].pc # "idle"
    /\ \E options \in OptionsSet :
         LET e == authenticatedFetchSendCookie(storage, options) IN
         /\ calls' = [calls EXCEPT ![c] =
                        [@ EXCEPT !.pc = "inflight", !.options = options,
                                  !.req = e.req, !.sent = e.sent, !.toast = e.toast,
                                  !.redirects = e.redirects, !.ret = e.ret,
                                  !.afterExpired = expired]]
         /\ storage' = e.st
         /\ loginRedirects' = loginRedirects + e.redirects
    /\ last' = NoOp
    /\ UNCHANGED <<variant, feat, geo, logouts, urlToken, protected, dcl, indexRedirects, location,
                   expired>>

\* script.js lines 103-120.
authenticatedFetchSettleCookie(c) ==
    /\ variant = "cookie"
    /\ Running
    /\ calls[c].pc = "inflight"
    /\ \E status \in Statuses \cup {NetFail} :
         LET e == authenticatedFetchRecvCookie(storage, status) IN
         /\ calls' = [calls EXCEPT ![c] =
                        [@ EXCEPT !.pc = "done", !.status = status,
                                  !.sent = @ + e.sent, !.toast = e.toast,
                                  !.redirects = e.redirects, !.ret = e.ret,
                                  !.resp = e.resp]]
         /\ storage' = e.st
         /\ loginRedirects' = loginRedirects + e.redirects
         /\ expired' = (expired \/ status = 401)
    /\ last' = NoOp
    /\ UNCHANGED <<variant, feat, geo, logouts, urlToken, protected, dcl, indexRedirects, location>>

\* ------------------------------------------------------------ logout
\* A click on the logout control.  The request is not awaited and its outcome
\* is only logged.
logoutCall ==
    /\ Running
    /\ logouts.n < MaxLogouts
    /\ LET r == IF variant = "bearer" THEN logout(storage) ELSE logoutCookie(storage) IN
       /\ storage' = r.st
       /\ logouts' = [logouts EXCEPT !.n = @ + 1, !.sent = @ + r.sent,
                                      !.auth = r.auth, !.pending = @ + r.sent]
       /\ indexRedirects' = indexRedirects + r.redirects
    /\ last' = NoOp
    /\ UNCHANGED <<variant, feat, geo, urlToken, protected, dcl, calls, loginRedirects,
                   location, expired>>

\* ------------------------------------------------------------- navigation
\* A pending setTimeout callback assigns window.location.href: the page unloads
\* and none of its handlers runs again.
RedirectFires ==
    /\ location = "page"
    /\ \/ loginRedirects > 0 /\ location' = "login.html"
       \/ indexRedirects > 0 /\ location' = "index.html"
    /\ last' = NoOp
    /\ UNCHANGED <<variant, feat, geo, logouts, storage, urlToken, protected, dcl, calls,
                   loginRedirects, indexRedirects, expired>>

Next ==
    \/ DOMContentLoaded
    \/ DOMContentLoadedCookie
    \/ ProfileResponse
    \/ \E c \in Calls : authenticatedFetchCall(c)
    \/ \E c \in Calls : authenticatedFetchSettle(c)
    \/ \E c \in Calls : authenticatedFetchCallCookie(c)
    \/ \E c \in Calls : authenticatedFetchSettleCookie(c)
    \/ logoutCall
    \/ RedirectFires

Spec == Init /\ [][Next]_vars

\* ------------------------------------------------- the session store alone
\* getCurrentUser and updateUserProfile are synchronous: each runs to its end
\* between two steps of the asynchronous operations above, and reads and writes
\* the session record only.  They are applied here to every session text.  The
\* page has loaded on a view that is not protected, without a token parameter,
\* so that the DOMContentLoaded handler has run and changed nothing.
InitStore ==
    /\ variant \in {"bearer", "cookie"}
    /\ \E u \in UserTexts, t \in {NoItem} \cup Tokens, aux \in AuxItems :
         storage = [user |-> u, token |-> t, trips |-> aux.trips,
                    signup |-> aux.signup, dark |-> aux.dark]
    /\ variant = "cookie" => storage.token = NoItem
    /\ urlToken = Null
    /\ protected = FALSE
    /\ dcl = [InitDcl EXCEPT !.pc = "done", !.gcRet = "false"]
    /\ calls = [c \in Calls |-> IdleCall]
    /\ loginRedirects = 0
    /\ indexRedirects = 0
    /\ location = "page"
    /\ logouts = IdleLogouts
    /\ expired = FALSE
    /\ last = NoOp
    /\ feat = IdleFeat
    /\ geo = IdleGeo

\* window.getCurrentUser(), called by a page script.
getCurrentUserCall ==
    /\ Running
    /\ LET r == IF variant = "bearer" THEN getCurrentUser(storage)
                ELSE getCurrentUserCookie(storage) IN
       /\ storage' = r.st
       /\ last' = [op |-> "getCurrentUser", arg |-> EmptyObj, pre |-> storage,
                   ret |-> r.ret, wrote |-> {}, threw |-> r.threw, token |-> Null]
    /\ UNCHANGED <<variant, feat, geo, logouts, urlToken, protected, dcl, calls, loginRedirects,
                   indexRedirects, location, expired>>

\* window.getAuthToken(), called by a page script (part_000 only).
getAuthTokenCall ==
    /\ Running
    /\ variant = "bearer"
    /\ LET r == getAuthTokenRun(storage) IN
       /\ storage' = r.st
       /\ last' = [op |-> "getAuthToken", arg |-> EmptyObj, pre |-> storage,
                   ret |-> JSNull, wrote |-> {}, threw |-> r.threw, token |-> r.token]
    /\ UNCHANGED <<variant, feat, geo, logouts, urlToken, protected, dcl, calls, loginRedirects,
                   indexRedirects, location, expired>>

\* updateUserProfile(updates), called by a page script or uploadProfilePicture.
updateUserProfileCall ==
    /\ Running
    /\ \E updates \in Updates :
         LET r == IF variant = "bearer" THEN updateUserProfile(storage, updates)
                  ELSE updateUserProfileCookie(storage, updates) IN
         /\ storage' = r.st
         /\ last' = [op |-> "updateUserProfile", arg |-> updates, pre |-> storage,
                     ret |-> r.ret, wrote |-> r.wrote, threw |-> FALSE,
                     token |-> Null]
    /\ UNCHANGED <<variant, feat, geo, logouts, urlToken, protected, dcl, calls, loginRedirects,
                   indexRedirects, location, expired>>

\* A click on the dark-mode control.
toggleDarkModeCall ==
    /\ Running
    /\ storage' = toggleDarkMode(storage)
    /\ last' = NoOp
    /\ UNCHANGED <<variant, feat, geo, logouts, urlToken, protected, dcl, calls, loginRedirects,
                   indexRedirects, location, expired>>

NextStore ==
    \/ getCurrentUserCall
    \/ getAuthTokenCall
    \/ updateUserProfileCall
    \/ toggleDarkModeCall
    \/ logoutCall

SpecStore == InitStore /\ [][NextStore]_vars

\* ------------------------------------------------------------ feature calls
\* One feature call at a time, with the logout control and the pending
\* redirects of the page.  The page has loaded on a view that is not protected,
\* without a token parameter; it holds no session or a flat one.
InitFeature ==
    /\ variant \in {"bearer", "cookie"}
    /\ \E u \in {TextAbsent, JSONstringify(FlatRecord([name |-> "ann"], "T1"))},
          aux \in AuxItems :
         storage = [user |-> u, token |-> NoItem, trips |-> aux.trips,
                    signup |-> aux.signup, dark |-> aux.dark]
    /\ urlToken = Null
    /\ protected = FALSE
    /\ dcl = [InitDcl EXCEPT !.pc = "done", !.gcRet = "false"]
    /\ calls = [c \in Calls |-> IdleCall]
    /\ loginRedirects = 0
    /\ indexRedirects = 0
    /\ location = "page"
    /\ logouts = IdleLogouts
    /\ expired = FALSE
    /\ last = NoOp
    /\ feat = IdleFeat
    /\ geo \in {[IdleGeo EXCEPT !.provider = p] : p \in Providers}

\* Whether the variant's gateway finds a credential to send: a stored token,
\* or the ambient cookie of script.js.
CredentialPresent(v, st) == v = "cookie" \/ Truthy(getAuthToken(st))

\* A feature call from the point where it calls the gateway with the awaited
\* location loc: the gateway up to its await and, when the gateway returns null
\* at once, the rest of the feature call.
FeatureInvoke(f, st, loc) ==
    LET options == featureOptions(f.op, loc)
        e == gatewaySend(variant, st, options)
        g == [f EXCEPT !.loc = loc, !.invoked = 1, !.options = options,
                       !.tokenSeen = getAuthToken(st),
                       !.credAtInvoke = CredentialPresent(variant, st),
                       !.req = e.req, !.sent = e.sent, !.gwToast = e.toast,
                       !.gwRet = e.ret, !.redirects = e.redirects]
    IN  IF e.ret = "pending"
        THEN [feat |-> [g EXCEPT !.pc = "inflight"], st |-> e.st]
        ELSE LET r == featureRecv(variant, f.op, e, f.out) IN
             [feat |-> [g EXCEPT !.pc = "done", !.ret = r.ret, !.toast = r.toast,
                                 !.notified = r.notified, !.ok = r.ok,
                                 !.sent = @ + r.sent, !.threw = r.threw],
              st |-> r.st]

\* A page script calls one of the feature calls.
featureCall ==
    /\ Running
    /\ feat.pc = "idle"
    /\ \E op \in FeatureOpsOf(variant) :
         LET f == [feat EXCEPT !.op = op,
                               !.credAtCall = CredentialPresent(variant, storage)] IN
         IF op \in LocatingOps /\ getCurrentLocationStart(geo) = "pending"
         THEN /\ feat' = [f EXCEPT !.pc = "locating", !.settled = "pending"]
              /\ UNCHANGED <<storage, loginRedirects>>
         ELSE LET r == FeatureInvoke(
                         [f EXCEPT !.settled = IF op \in LocatingOps
                                               THEN "unsupported" ELSE "none"],
                         storage, NoLocation) IN
              /\ feat' = r.feat
              /\ storage' = r.st
              /\ loginRedirects' = loginRedirects + r.feat.redirects
    /\ last' = NoOp
    /\ UNCHANGED <<variant, geo, urlToken, protected, dcl, calls, indexRedirects,
                   location, logouts, expired>>

\* The browser calls back for the pending getCurrentPosition: getCurrentLocation
\* settles and the feature call goes on to the gateway.
locationCallback ==
    /\ Running
    /\ feat.pc = "locating"
    /\ \E cb \in LocationCallbacks(variant, geo) :
         LET r == FeatureInvoke([feat EXCEPT !.settled = cb], storage,
                                AwaitedLocation(cb)) IN
         /\ feat' = r.feat
         /\ storage' = r.st
         /\ loginRedirects' = loginRedirects + r.feat.redirects
         /\ geo' = [geo EXCEPT !.currentLocation =
                       IF cb = "delivered" THEN LocationOf(Position) ELSE @]
    /\ last' = NoOp
    /\ UNCHANGED <<variant, urlToken, protected, dcl, calls, indexRedirects,
                   location, logouts, expired>>

\* The fetch of the feature call's gateway request settles: the gateway after
\* its await, then the rest of the feature call.
featureResponse ==
    /\ Running
    /\ feat.pc = "inflight"
    /\ \E out \in OutcomesOf(feat.op) :
         LET gw == gatewayRecv(variant, storage, out.status)
             r == featureRecv(variant, feat.op, gw, out) IN
         /\ feat' = [feat EXCEPT !.pc = "done", !.out = out,
                                 !.sent = @ + gw.sent + r.sent, !.threw = r.threw,
                                 !.gwToast = gw.toast,
                                 !.gwRet = gw.ret,
                                 !.redirects = @ + gw.redirects,
                                 !.ret = r.ret, !.toast = r.toast,
                                 !.notified = r.notified, !.ok = r.ok]
         /\ storage' = r.st
         /\ loginRedirects' = loginRedirects + gw.redirects
         /\ expired' = (expired \/ out.status = 401)
    /\ last' = NoOp
    /\ UNCHANGED <<variant, geo, urlToken, protected, dcl, calls, indexRedirects,
                   location, logouts>>

NextFeature ==
    \/ featureCall
    \/ locationCallback
    \/ featureResponse
    \/ logoutCall
    \/ RedirectFires

SpecFeature == InitFeature /\ [][NextFeature]_vars

\* The browser makes the callbacks that are due, and a fetch settles.
SpecFeatureFair ==
    SpecFeature /\ WF_vars(locationCallback) /\ WF_vars(featureResponse)

\* ------------------------------------------------------------ logout request
\* The fetch logout() fired settles while the page is still loaded: with an ok
\* response or another one, both ignored, or by rejecting, which the .catch
\* logs (part_000 lines 234-239, script.js 166-169).
LogoutOutcomes == {"ok", "notOk", "rejected"}

logoutResponse ==
    /\ location = "page"
    /\ logouts.pending > 0
    /\ \E o \in LogoutOutcomes :
         logouts' = [logouts EXCEPT !.pending = @ - 1, !.outcome = o]
    /\ UNCHANGED <<variant, feat, geo, storage, urlToken, protected, dcl, calls,
                   loginRedirects, indexRedirects, location, expired, last>>

\* A page whose script calls logout(), the request settling or not before the
\* redirect fires.
NextLogout ==
    \/ logoutCall
    \/ logoutResponse
    \/ RedirectFires

SpecLogout == InitStore /\ [][NextLogout]_vars

\* ------------------------------------------------------------ OAuth page load
\* A page script calls window.handleGoogleCallback() (part_000 lines 157-172,
\* exported at line 955) after the load handler has finished: without a token
\* parameter it returns false at once, with one it starts an exchange.
handleGoogleCallbackCall ==
    /\ Running
    /\ variant = "bearer"
    /\ dcl.pc = "done"
    /\ dcl.again.pc # "awaitProfile"
    /\ dcl.again.n < MaxRecalls
    /\ LET a == [IdleAgain EXCEPT !.n = dcl.again.n + 1, !.param = urlToken,
                     !.afterSuccess = (dcl.gcRet = "true" \/ dcl.again.ret = "true")] IN
       IF ~Truthy(urlToken)
       THEN /\ dcl' = [dcl EXCEPT !.again = [a EXCEPT !.pc = "done", !.ret = "false"]]
            /\ UNCHANGED storage
       ELSE LET st1 == setItem(storage, "token", urlToken)
                token == getAuthToken(st1) IN
            /\ dcl' = [dcl EXCEPT !.again =
                          [a EXCEPT !.pc = "awaitProfile", !.token = token,
                                    !.reqAuth = Bearer(token), !.sent = 1,
                                    !.wrote = TRUE]]
            /\ storage' = st1
    /\ last' = NoOp
    /\ UNCHANGED <<variant, feat, geo, urlToken, protected, calls, loginRedirects,
                   indexRedirects, location, logouts, expired>>

\* The profile fetch of that call settles: fetchUserProfile 132-150 and
\* handleGoogleCallback 172-199.
handleGoogleCallbackSettle ==
    /\ location = "page"
    /\ dcl.again.pc = "awaitProfile"
    /\ \E out \in ProfileOutcomes :
         LET gc == handleGoogleCallbackRecv(storage, urlToken, dcl.again.token, out) IN
         /\ dcl' = [dcl EXCEPT !.again.pc = "done", !.again.ret = gc.ret,
                               !.again.toast = gc.toast,
                               !.again.redirects = gc.redirects]
         /\ storage' = gc.st
         /\ urlToken' = gc.url
         /\ loginRedirects' = loginRedirects + gc.redirects
    /\ last' = NoOp
    /\ UNCHANGED <<variant, feat, geo, protected, calls, indexRedirects, location,
                   logouts, expired>>

\* The page load of part_000 and the calls of handleGoogleCallback after it.
InitOAuth == Init /\ variant = "bearer"

NextOAuth ==
    \/ DOMContentLoaded
    \/ ProfileResponse
    \/ handleGoogleCallbackCall
    \/ handleGoogleCallbackSettle
    \/ RedirectFires

SpecOAuth == InitOAuth /\ [][NextOAuth]_vars

\* ---------------------------------------------------------- location tracking
\* A page that calls startLocationTracking and stopLocationTracking, and the
\* browser calling the watches back.
InitTracking ==
    /\ variant \in {"bearer", "cookie"}
    /\ storage = [user |-> JSONstringify(FlatRecord([name |-> "ann"], "T1")),
                  token |-> NoItem, trips |-> NoItem, signup |-> NoItem, dark |-> NoItem]
    /\ urlToken = Null
    /\ protected = FALSE
    /\ dcl = [InitDcl EXCEPT !.pc = "done", !.gcRet = "false"]
    /\ calls = [c \in Calls |-> IdleCall]
    /\ loginRedirects = 0
    /\ indexRedirects = 0
    /\ location = "page"
    /\ logouts = IdleLogouts
    /\ expired = FALSE
    /\ last = NoOp
    /\ feat = IdleFeat
    /\ geo \in {[IdleGeo EXCEPT !.provider = p] : p \in Providers}

\* startLocationTracking (part_000 lines 607-637, script.js 429-458): the id
\* of the new watch is assigned over whatever watchId held.
startLocationTrackingOn(g) ==
    IF g.provider = "unsupported" THEN [g EXCEPT !.toast = "error"]
    ELSE [g EXCEPT !.issued = @ + 1, !.watches = @ \cup {g.issued + 1},
                   !.watchId = g.issued + 1, !.toast = "success"]

\* stopLocationTracking (part_000 lines 642-648, script.js 460-466).
stopLocationTrackingOn(g) ==
    IF g.watchId # NoWatch
    THEN [g EXCEPT !.watches = @ \ {g.watchId}, !.watchId = NoWatch, !.toast = "info"]
    ELSE g

\* The browser calls an active watch back (part_000 lines 614-630): the success
\* callback writes currentLocation, the error callback (an error of the
\* provider, or TIMEOUT after the 5000 ms of the options) shows a toast.
watchCallbackOn(g, w) ==
    IF g.provider = "delivers"
    THEN [g EXCEPT !.currentLocation = LocationOf(Position), !.writer = w]
    ELSE [g EXCEPT !.toast = "error"]

startLocationTracking ==
    /\ Running
    /\ geo.issued < MaxWatches
    /\ geo' = startLocationTrackingOn(geo)
    /\ UNCHANGED <<variant, feat, storage, urlToken, protected, dcl, calls,
                   loginRedirects, indexRedirects, location, logouts, expired, last>>

stopLocationTracking ==
    /\ Running
    /\ geo' = stopLocationTrackingOn(geo)
    /\ UNCHANGED <<variant, feat, storage, urlToken, protected, dcl, calls,
                   loginRedirects, indexRedirects, location, logouts, expired, last>>

watchCallback ==
    /\ Running
    /\ \E w \in geo.watches : geo' = watchCallbackOn(geo, w)
    /\ UNCHANGED <<variant, feat, storage, urlToken, protected, dcl, calls,
                   loginRedirects, indexRedirects, location, logouts, expired, last>>

NextTracking ==
    \/ startLocationTracking
    \/ stopLocationTracking
    \/ watchCallback

SpecTracking == InitTracking /\ [][NextTracking]_vars

\* ================================================================ claims
\* A stored text that holds no session: nothing, a literal the readers skip,
\* or a text that does not parse.
NoSession(st) == st.user.kind \in {"absent", "undefined", "null", "garbage"}

\* C1: in the bearer-token gateway, a call made while getAuthToken finds no
\* credential issues no request, shows a warning, schedules one redirect to
\* login and returns null.
C1_NoCredentialAborts ==
    \A c \in Calls :
        (variant = "bearer" /\ calls[c].pc # "idle" /\ ~Truthy(calls[c].tokenSeen))
        => /\ calls[c].sent = 0
           /\ calls[c].req = EmptyObj
           /\ calls[c].toast = "warning"
           /\ calls[c].redirects = 1
           /\ loginRedirects >= 1
           /\ calls[c].ret = "null"
           /\ calls[c].pc = "done"

C1_Witness ==
    \E c \in Calls :
        /\ variant = "bearer"
        /\ calls[c].pc = "done"
        /\ ~Truthy(calls[c].tokenSeen)
        /\ calls[c].ret = "null"
        /\ storage.user.kind = "json"

\* C2: the step in which a gateway call receives status 401 removes the
\* session record and the provisional token, shows a warning, schedules
\* exactly one redirect to login and returns null.
C2_Handles401 ==
    [][\A c \in Calls :
        (calls[c].pc = "inflight" /\ calls'[c].pc = "done" /\ calls'[c].status = 401)
        => /\ storage'.user = TextAbsent
           /\ storage'.token = NoItem
           /\ calls'[c].toast = "warning"
           /\ calls'[c].redirects = 1
           /\ loginRedirects' = loginRedirects + 1
           /\ calls'[c].ret = "null"]_vars

C2_Witness ==
    \E c \in Calls :
        /\ calls[c].pc = "done"
        /\ calls[c].status = 401
        /\ calls[c].ret = "null"
        /\ calls[c].redirects = 1

\* C3: every request the bearer-token gateway sends carries Content-Type:
\* application/json and an Authorization header holding the stored credential,
\* whatever options the call passes.
C3_RequestsCarryCredential ==
    \A c \in Calls :
        (variant = "bearer" /\ calls[c].sent = 1)
        => /\ "headers" \in DOMAIN calls[c].req
           /\ Get(calls[c].req.headers, "Content-Type") = "application/json"
           /\ Get(calls[c].req.headers, "Authorization") = Bearer(calls[c].tokenSeen)

\* C4: once a gateway call has handled a 401, the session record and the
\* provisional token stay out of storage and no gateway call started later
\* issues a request.
C4_ExpiredIsTerminal ==
    (variant = "bearer" /\ expired)
    => /\ storage.user = TextAbsent
       /\ storage.token = NoItem
       /\ \A c \in Calls : calls[c].afterExpired => calls[c].sent = 0

\* C5: for every initial storage, the step in which the profile fetch of an
\* OAuth callback with token=T succeeds leaves a session record holding the
\* fetched profile fields and credential T, a URL without the token parameter
\* and no provisional token.
C5_OAuthStoresCallbackToken ==
    [][(dcl.pc = "awaitProfile" /\ dcl'.gcRet = "true")
       => /\ storage'.user = JSONstringify(Spread(dcl'.body, [token |-> dcl'.param]))
          /\ urlToken' = Null
          /\ storage'.token = NoItem]_vars

\* C6: the step in which the OAuth profile fetch fails (non-ok status or
\* transport failure) removes the provisional token and the session record,
\* shows an error, schedules a redirect to login and returns false.
C6_OAuthFailurePurges ==
    [][(dcl.pc = "awaitProfile" /\ dcl'.pc = "done"
        /\ (dcl'.status = NetFail \/ ~IsOk(dcl'.status)))
       => /\ storage'.token = NoItem
          /\ storage'.user = TextAbsent
          /\ dcl'.gcToast = "error"
          /\ dcl'.gcRedirects = 1
          /\ loginRedirects' >= loginRedirects + 1
          /\ dcl'.gcRet = "false"]_vars

C6_Witness ==
    /\ dcl.pc = "done"
    /\ dcl.param = "T2"
    /\ dcl.status = 500
    /\ dcl.gcRet = "false"
    /\ storage.user = TextAbsent

\* C7: on a protected page, a check that runs while no non-empty credential is
\* retrievable shows a warning and schedules a redirect to login.
C7_CheckRequiresCredential ==
    (variant = "bearer" /\ dcl.checks = 1 /\ ~dcl.authAtCheck)
    => (dcl.checkToast = "warning" /\ dcl.checkRedirects = 1)

FlatEquivalent(data) == Spread([token |-> data.token], data.user)

C9_NormalizationShapeIndependent ==
    [][(variant = "bearer" /\ last'.op = "getCurrentUser"
        /\ storage.user.kind = "json" /\ "token" \in DOMAIN storage.user.obj)
       => LET data == storage.user.obj IN
          IF "user" \in DOMAIN data
          THEN /\ last'.ret = JSObj(FlatEquivalent(data))
               /\ last'.ret =
                    getCurrentUser(setItem(storage, "user",
                                           JSONstringify(FlatEquivalent(data)))).ret
          ELSE /\ last'.ret = JSObj(data)
               /\ storage' = storage]_vars

C9_Witness ==
    /\ variant = "bearer"
    /\ last.op = "getCurrentUser"
    /\ storage.user.kind = "json"
    /\ "user" \in DOMAIN storage.user.obj
    /\ "token" \in DOMAIN storage.user.obj
    /\ last.ret = JSObj(FlatEquivalent(storage.user.obj))

\* C10: updateUserProfile called while no session is stored returns null and
\* calls setItem on no key; storage is left as it was, but for an unparseable
\* session entry, which the read removes.
C10_NoSessionNoWrite ==
    [][(last'.op = "updateUserProfile" /\ NoSession(storage))
       => /\ last'.ret = JSNull
          /\ last'.wrote = {}
          /\ storage' = IF storage.user.kind = "garbage"
                        THEN removeItem(storage, "user") ELSE storage]_vars

C10_Witness ==
    /\ last.op = "updateUserProfile"
    /\ last.ret = JSNull
    /\ last.wrote = {}
    /\ NoSession(storage)

\* C11: in the bearer variant, two updateUserProfile calls in a row with
\* different profile fields x then y, on a session stored in either shape,
\* leave a record that holds x and y and every original profile field neither
\* of them names, and the credential that was retrievable before.
C11_TwoUpdatesMerge ==
    [][(/\ variant = "bearer"
        /\ last.op = "updateUserProfile" /\ last'.op = "updateUserProfile"
        /\ last.pre.user.kind = "json"
        /\ "token" \notin (DOMAIN last.arg) \cup (DOMAIN last'.arg)
        /\ (DOMAIN last.arg) \cap (DOMAIN last'.arg) = {})
       => LET x == last.arg
              y == last'.arg
              before == getCurrentUser(last.pre).ret.o
              after == JSONparse(storage'.user)
          IN  /\ storage'.user.kind = "json"
              /\ \A k \in DOMAIN x : Get(after, k) = x[k]
              /\ \A k \in DOMAIN y : Get(after, k) = y[k]
              /\ \A k \in (DOMAIN before) \ ((DOMAIN x) \cup (DOMAIN y)) :
                    Get(after, k) = before[k]
              /\ "user" \notin DOMAIN after
              /\ getAuthToken(storage') = getAuthToken(last.pre)]_vars

C11_Witness ==
    /\ variant = "bearer"
    /\ last.op = "updateUserProfile"
    /\ last.arg = [name |-> "zed"]
    /\ Get(last.pre.user.obj, "profilePicture") = "pic"
    /\ Get(last.pre.user.obj, "name") = "ann"
    /\ Get(storage.user.obj, "profilePicture") = "pic"
    /\ Get(storage.user.obj, "name") = "zed"
    /\ Get(storage.user.obj, "email") = "ann@x"
    /\ Get(storage.user.obj, "token") = "T1"

\* C12: in the bearer variant, whatever object updateUserProfile is called
\* with, the credential getAuthToken retrieves after the call is the one it
\* retrieved before.
C12_UpdateKeepsCredential ==
    [][(variant = "bearer" /\ last'.op = "updateUserProfile")
       => getAuthToken(storage') = getAuthToken(storage)]_vars

\* C13: the step in which logout() runs leaves no session record, no
\* provisional token, no cached trip list and no signup draft in storage, so
\* that getCurrentUser and getAuthToken return null, and schedules one
\* redirect to the index view.
C13_LogoutClearsSession ==
    [][(logouts'.n = logouts.n + 1)
       => /\ storage'.user = TextAbsent
          /\ storage'.token = NoItem
          /\ storage'.trips = NoItem
          /\ storage'.signup = NoItem
          /\ IF variant = "bearer"
             THEN /\ getCurrentUser(storage').ret = JSNull
                  /\ getAuthToken(storage') = Null
             ELSE getCurrentUserCookie(storage').ret = JSNull
          /\ indexRedirects' = indexRedirects + 1]_vars

C13_Witness ==
    /\ logouts.n = 1
    /\ logouts.auth = Bearer("T1")
    /\ storage.user = TextAbsent
    /\ storage.trips = NoItem
    /\ storage.dark = "true"
    /\ indexRedirects = 1
    /\ \E c \in Calls : calls[c].pc = "inflight"

\* C14: the step in which logout() runs leaves the session record, the
\* dark-mode flag, the cached trip list and the signup draft all absent.
C14_LogoutClearsFourKeys ==
    [][(logouts'.n = logouts.n + 1)
       => /\ storage'.user = TextAbsent
          /\ storage'.dark = NoItem
          /\ storage'.trips = NoItem
          /\ storage'.signup = NoItem]_vars

\* C15: the step in which a gateway call receives a response whose status is
\* not 401 returns that response to the caller, changes nothing in storage,
\* shows no toast and schedules no redirect.
C15_OtherResponsesPassThrough ==
    [][\A c \in Calls :
        (/\ calls[c].pc = "inflight" /\ calls'[c].pc = "done"
         /\ calls'[c].status \notin {401, NetFail})
        => /\ calls'[c].ret = "response"
           /\ calls'[c].resp = calls'[c].status
           /\ calls'[c].toast = "none"
           /\ calls'[c].redirects = 0
           /\ storage' = storage
           /\ loginRedirects' = loginRedirects
           /\ indexRedirects' = indexRedirects]_vars

C15_Witness ==
    \E c \in Calls :
        /\ calls[c].pc = "done"
        /\ calls[c].status = 500
        /\ calls[c].ret = "response"
        /\ calls[c].resp = 500
        /\ storage.user.kind = "json"
        /\ loginRedirects = 0

\* C16: the step in which the fetch of a gateway call fails at transport
\* level shows an error and rethrows; the call has issued one request and
\* issues no other, storage is unchanged and no redirect is scheduled.
C16_TransportFailureRethrown ==
    [][\A c \in Calls :
        (/\ calls[c].pc = "inflight" /\ calls'[c].pc = "done"
         /\ calls'[c].status = NetFail)
        => /\ calls'[c].ret = "threw"
           /\ calls'[c].toast = "error"
           /\ calls'[c].sent = 1
           /\ calls'[c].redirects = 0
           /\ storage' = storage
           /\ loginRedirects' = loginRedirects
           /\ indexRedirects' = indexRedirects]_vars

C16_Witness ==
    \E c \in Calls :
        /\ calls[c].pc = "done"
        /\ calls[c].status = NetFail
        /\ calls[c].ret = "threw"
        /\ calls[c].toast = "error"
        /\ calls[c].sent = 1
        /\ storage.user.kind = "json"

\* C17: when the one-shot location fetch rejects, times out or finds no
\* provider, checkIn and triggerSOS go on to call the gateway with location
\* null in the body; the request is issued whenever the gateway finds a
\* credential, and on an ok response with a JSON body the call takes its
\* success branch.
LocationFailed == feat.op \in LocatingOps /\ feat.settled \in {"rejected", "timeout", "unsupported"}

C17_NullLocationStillSent ==
    LocationFailed
    => /\ feat.invoked = 1
       /\ feat.options.body.location = JSNull
       /\ feat.credAtInvoke
          => (feat.sent = 1 /\ feat.req.body.location = JSNull)
       /\ (feat.pc = "done" /\ feat.sent = 1 /\ IsOk(feat.out.status) /\ feat.out.parses)
          => /\ feat.ok
             /\ feat.notified
             /\ feat.toast = IF feat.op = "checkIn" THEN "success" ELSE "warning"

C17_Witness ==
    /\ feat.op = "checkIn"
    /\ feat.settled = "timeout"
    /\ feat.pc = "done"
    /\ feat.sent = 1
    /\ feat.req.body.location = JSNull
    /\ feat.out.status = 200
    /\ feat.toast = "success"

\* C18: in both variants, once checkIn or triggerSOS has been called while a
\* credential is present, its gateway request is eventually issued, whatever
\* the location provider does, unless the user logs out or the page unloads
\* in the meantime.
C18_LocationNeverBlocks ==
    (feat.op \in LocatingOps /\ feat.credAtCall)
    ~> (feat.sent = 1 \/ logouts.n > 0 \/ location # "page")

\* C19: getCurrentTrip returns the first trip, in fetched order, whose
\* [startDate, endDate] contains the current time and whose status is not
\* Completed, and null when no fetched trip qualifies.  The trips fetched are
\* those of an ok response in the payload shape the variant reads.
Qualifies(t) == t.startDate <= Now /\ Now <= t.endDate /\ t.status # "Completed"

FetchedTrips ==
    IF /\ feat.gwRet = "response" /\ IsOk(feat.out.status) /\ feat.out.parses
       /\ feat.out.shape = (IF variant = "bearer" THEN "array" ELSE "object")
    THEN feat.out.trips ELSE <<>>

C19_CurrentTripIsFirstQualifying ==
    (feat.op = "getCurrentTrip" /\ feat.pc = "done")
    => LET l == FetchedTrips
           I == {i \in 1..Len(l) : Qualifies(l[i])} IN
       IF I = {} THEN feat.ret = RetNull
       ELSE \E i \in I : (\A j \in I : i <= j) /\ feat.ret = RetTrip(l[i])

\* C20: given an ok response whose body is a bare array of trips or an object
\* {trips: [...]}, getAllTrips returns that list of trips.
C20_BothTripPayloadShapes ==
    (/\ feat.op = "getAllTrips" /\ feat.pc = "done" /\ feat.gwRet = "response"
     /\ IsOk(feat.out.status) /\ feat.out.parses
     /\ feat.out.shape \in {"array", "object"})
    => feat.ret = RetList(feat.out.trips)

\* The value a feature call returns when it fails.
Sentinel(op) ==
    CASE op \in {"checkIn", "triggerSOS", "removeContact"} -> RetUndefined
      [] op = "getAllTrips" -> RetList(<<>>)
      [] op = "changePassword" -> RetFalse
      [] OTHER -> RetNull

\* The gateway outcomes that are failures for the feature call: the gateway
\* aborted or met a 401 (it returned null), the transport failed (it threw),
\* the response is not ok, or its body does not parse.
GatewayFailed ==
    \/ feat.gwRet \in {"null", "threw"}
    \/ feat.gwRet = "response" /\ ~IsOk(feat.out.status)
    \/ feat.gwRet = "response" /\ ~feat.out.parses

\* C21: no feature call lets a failure leave it as an exception: a feature
\* call that has finished returned a value, and after an abort, a 401, a
\* response that is not ok, a transport failure or an unparseable body that
\* value is the call's sentinel (null, the empty list, false or no value).
C21_FeatureCallsNeverThrow ==
    feat.pc = "done"
    => /\ ~feat.threw
       /\ GatewayFailed => feat.ret = Sentinel(feat.op)

C21_Witness ==
    /\ feat.op = "changePassword"
    /\ feat.pc = "done"
    /\ feat.sent = 1
    /\ feat.gwRet = "threw"
    /\ feat.ret = RetFalse
    /\ ~feat.threw

\* C22: a feature call that receives a response that is neither ok nor a 401
\* shows an error notification and returns its failure sentinel.
C22_NotOkShowsError ==
    (feat.pc = "done" /\ feat.gwRet = "response" /\ ~IsOk(feat.out.status))
    => (feat.toast = "error" /\ feat.ret = Sentinel(feat.op))

\* C23: one invocation of a feature call issues at most one network request,
\* whatever the outcome; a failed request is not sent again.
C23_AtMostOneRequest == feat.sent <= 1

C23_Witness ==
    /\ feat.op = "createTrip"
    /\ feat.pc = "done"
    /\ feat.gwRet = "threw"
    /\ feat.sent = 1
    /\ feat.ret = RetNull

\* C24: after any sequence of startLocationTracking and stopLocationTracking
\* at most one location watch is active, and once stopLocationTracking has
\* returned (watchId is null again) none is: no watch callback can still write
\* the last known location.
C24_AtMostOneWatch ==
    /\ Cardinality(geo.watches) <= 1
    /\ geo.watchId = NoWatch => geo.watches = {}

\* C25: on an OAuth callback that carries the credential T in the URL, the
\* profile fetch is sent with exactly T as its bearer token, whatever storage
\* held before, a session record with another token included.
C25_ProfileFetchUsesCallbackToken ==
    dcl.sent = 1 => dcl.reqAuth = Bearer(dcl.param)

\* C26: once an OAuth exchange has succeeded, the token parameter is gone from
\* the URL for the rest of the page, so a later call of handleGoogleCallback
\* returns false, sends no request and leaves storage as it was.
C26_ExchangeNotRepeated ==
    /\ dcl.gcRet = "true" => urlToken = Null
    /\ (dcl.again.n > 0 /\ dcl.again.afterSuccess)
       => /\ dcl.again.param = Null
          /\ dcl.again.ret = "false"
          /\ dcl.again.sent = 0
          /\ ~dcl.again.wrote

C26_Witness ==
    /\ dcl.param = "T2"
    /\ dcl.gcRet = "true"
    /\ dcl.again.n = 1
    /\ dcl.again.afterSuccess
    /\ dcl.again.ret = "false"

\* C27: on page load in the bearer variant the protected-page check runs at
\* most once, exactly once on a protected page when the handler has finished,
\* never while the OAuth exchange is pending and only after
\* handleGoogleCallback has returned; the UI is filled with user data only
\* when that check found a session.
C27_CheckAfterCallbackOnce ==
    variant = "bearer"
    => /\ dcl.checks <= 1
       /\ dcl.pc = "awaitProfile"
          => (dcl.checks = 0 /\ ~dcl.ui /\ dcl.checkRedirects = 0)
       /\ dcl.checks = 1 => dcl.gcRet \in {"true", "false"}
       /\ (dcl.pc = "done" /\ protected) => dcl.checks = 1
       /\ dcl.ui => (dcl.checks = 1 /\ dcl.found)

C27_Witness ==
    /\ variant = "bearer"
    /\ dcl.param = "T2"
    /\ dcl.gcRet = "true"
    /\ dcl.checks = 1
    /\ dcl.ui
    /\ dcl.found

\* C28: the step in which the gateway handles a 401 leaves storage as logout
\* does: no session record, no provisional token, no cached trip list and no
\* signup draft.
C28_RejectionClearsLikeLogout ==
    [][\A c \in Calls :
        (calls[c].pc = "inflight" /\ calls'[c].pc = "done" /\ calls'[c].status = 401)
        => /\ storage'.user = TextAbsent
           /\ storage'.token = NoItem
           /\ storage'.trips = NoItem
           /\ storage'.signup = NoItem]_vars

\* C29: once logout() has run, the session record, the provisional token and
\* the cached trip list stay absent for as long as the page is loaded, also
\* when a request that was in flight at logout completes afterwards.
C29_LogoutStaysCleared ==
    (logouts.n > 0 /\ location = "page")
    => /\ storage.user = TextAbsent
       /\ storage.token = NoItem
       /\ storage.trips = NoItem

\* C30: during one page load at most one redirect to login is ever scheduled,
\* under every interleaving of gateway calls, the OAuth exchange and the
\* protected-page check.
C30_OneLoginRedirect == loginRedirects <= 1

\* Whether the stored value v of key k is no value at all.
AbsentItem(k, v) == IF k = "user" THEN v = TextAbsent ELSE v = NoItem

\* The feature call f went through getAllTrips and met an ok response whose
\* body is an array.
CachesTrips(v, f) ==
    /\ f.op = "getAllTrips" \/ (v = "bearer" /\ f.op = "getCurrentTrip")
    /\ f.gwRet = "response"
    /\ IsOk(f.out.status)
    /\ f.out.parses
    /\ f.out.shape = "array"

\* C31: in every step of a feature call, the only value stored under a
\* persisted key is the trip list getAllTrips caches on an ok response whose
\* body is an array; on every other outcome getAllTrips returns the empty list
\* and the cache is as it was, and createTrip, updateTrip, endTrip, checkIn,
\* triggerSOS, addContact, removeContact and changePassword store nothing (a
\* key that changes during them is one the gateway removed on a 401).
C31_OnlyGetAllTripsCaches ==
    [][(feat' # feat)
       => /\ \A k \in DOMAIN storage :
                storage'[k] # storage[k]
                => \/ AbsentItem(k, storage'[k])
                   \/ /\ k = "trips"
                      /\ feat'.pc = "done"
                      /\ CachesTrips(variant, feat')
                      /\ storage'[k] = ToString(feat'.out.trips)
          /\ (feat'.pc = "done" /\ feat'.op = "getAllTrips")
             => IF CachesTrips(variant, feat')
                THEN storage'.trips = ToString(feat'.out.trips)
                ELSE feat'.ret = RetList(<<>>) /\ storage'.trips = storage.trips]_vars

C31_Witness ==
    /\ feat.op = "getAllTrips"
    /\ feat.pc = "done"
    /\ feat.out.status = 200
    /\ feat.out.shape = "object"
    /\ Len(feat.out.trips) > 0
    /\ feat.ret = RetList(<<>>)
    /\ storage.trips = "[trips]"
    /\ logouts.n = 0

\* C32: logout is best-effort towards the server.  The step in which logout()
\* runs clears the session data and schedules the redirect to the index view
\* before anything is known of the request; it sends at most one request, in
\* the bearer variant exactly when getAuthToken finds a credential, carrying
\* it; and the step in which the request settles, however it does, changes
\* neither storage nor the redirects.
C32_LogoutBestEffort ==
    [][/\ (logouts'.n = logouts.n + 1)
          => /\ storage'.user = TextAbsent
             /\ storage'.token = NoItem
             /\ storage'.trips = NoItem
             /\ storage'.signup = NoItem
             /\ indexRedirects' = indexRedirects + 1
             /\ logouts'.sent - logouts.sent \in {0, 1}
             /\ logouts'.pending = logouts.pending + (logouts'.sent - logouts.sent)
             /\ variant = "bearer"
                => /\ (logouts'.sent = logouts.sent + 1) <=> Truthy(getAuthToken(storage))
                   /\ (logouts'.sent = logouts.sent + 1)
                      => logouts'.auth = Bearer(getAuthToken(storage))
       /\ (logouts'.pending < logouts.pending)
          => /\ storage' = storage
             /\ indexRedirects' = indexRedirects
             /\ loginRedirects' = loginRedirects
             /\ location' = location
             /\ logouts'.sent = logouts.sent]_vars

C32_Witness ==
    /\ variant = "bearer"
    /\ logouts.n = 1
    /\ logouts.sent = 1
    /\ logouts.auth = Bearer("T1")
    /\ logouts.pending = 0
    /\ logouts.outcome = "rejected"
    /\ storage.user = TextAbsent
    /\ storage.trips = NoItem
    /\ indexRedirects = 1
    /\ location = "page"

\* C33: getAuthToken returns the token of the session record when that record
\* parses and holds a non-empty token, otherwise the provisional OAuth token
\* when one is stored, otherwise null; it never throws and leaves storage as
\* it was, also over a session record that does not parse.
C33_TokenPrecedence ==
    [][(last'.op = "getAuthToken")
       => LET rec == storage.user
              provisional == IF storage.token \in Tokens THEN storage.token ELSE Null IN
          /\ ~last'.threw
          /\ storage' = storage
          /\ last'.token =
                CASE rec.kind \in {"absent", "undefined", "null", "garbage"} -> provisional
                  [] "token" \in DOMAIN rec.obj /\ rec.obj.token \in Tokens -> rec.obj.token
                  [] OTHER -> provisional]_vars

C33_Witness ==
    /\ last.op = "getAuthToken"
    /\ storage.user = TextGarbage
    /\ storage.token = "T2"
    /\ last.token = "T2"
    /\ ~last.threw

\* C34: in the cookie variant every request the gateway sends is issued with
\* credentials included, as the variant's logout request is.
C34_CookieRequestsIncludeCredentials ==
    \A c \in Calls :
        (variant = "cookie" /\ calls[c].sent = 1)
        => ("credentials" \in DOMAIN calls[c].req /\ calls[c].req.credentials = "include")

====
